---- MODULE Spec2Model ----
(***************************************************************************)
(* Mental-Health-Awareness-Website: the browser script (script.js) and the *)
(* Express server (server.js) as one state machine.                        *)
(*                                                                         *)
(* Strings the code inspects character by character (trim, the e-mail      *)
(* pattern, sanitizeHtml, base64) are sequences of one-character strings.  *)
(* Fixed texts the code only passes along (messages, colours) are atoms.   *)
(* A JavaScript number is an exact fraction [num, den]; every comparison   *)
(* the code makes is against a constant that a double holds exactly, and   *)
(* IEEE division is correctly rounded and monotone, so the comparison of   *)
(* the fractions is the comparison of the doubles.                         *)
(***************************************************************************)
EXTENDS Integers, Sequences, FiniteSets, TLC

VARIABLES
    form,            \* script.js: the radio groups q1..q12 of #mentalHealthForm
    results,         \* script.js: the #results element (innerHTML and style)
    fetches,         \* script.js: the requests the page has issued with fetch()
    env,             \* server.js: process.env (SMTP_HOST, ADMIN_USER, ADMIN_PASS)
    now,             \* server.js: the clock read by new Date()
    registrations,   \* server.js: table registrations, row id = position
    contacts,        \* server.js: table contacts
    scores,          \* server.js: table scores
    mails,           \* server.js: table mails
    handlers         \* server.js: one record per request received, in arrival order

clientVars == <<form, results, fetches>>
tableVars == <<registrations, contacts, scores, mails>>
serverVars == <<env, now, registrations, contacts, scores, mails, handlers>>
vars == <<form, results, fetches, env, now, registrations, contacts, scores, mails, handlers>>

(***************************************************************************)
(* Bounds of the model.                                                    *)
(***************************************************************************)
\* fetch() calls recorded before the page stops submitting
MaxPosts == 1
\* requests the server receives in one run
MaxReqs == 2
\* the latest value of the clock
MaxClock == 1
\* missing answers the user still fills in after the run has started
MaxFill == 1
\* leading / trailing whitespace characters of an input string
MaxPad == 1

(***************************************************************************)
(* Strings and numbers.                                                    *)
(***************************************************************************)
Rep(c, n) == [i \in 1..n |-> c]

Whitespace == {" ", "\t"}

\* String.prototype.trim: drop leading and trailing whitespace
RECURSIVE TrimStart(_)
TrimStart(s) ==
    IF s # <<>> /\ Head(s) \in Whitespace THEN TrimStart(Tail(s)) ELSE s

RECURSIVE TrimEnd(_)
TrimEnd(s) ==
    IF s # <<>> /\ s[Len(s)] \in Whitespace THEN TrimEnd(SubSeq(s, 1, Len(s) - 1)) ELSE s

Trim(s) == TrimEnd(TrimStart(s))

\* String.prototype.replace(/c/g, r): every occurrence of character c becomes r
RECURSIVE ReplaceAll(_, _, _)
ReplaceAll(s, c, r) ==
    IF s = <<>> THEN <<>>
    ELSE IF Len(s) = 1 THEN (IF s[1] = c THEN r ELSE s)
    ELSE LET half == Len(s) \div 2
         IN  ReplaceAll(SubSeq(s, 1, half), c, r)
             \o ReplaceAll(SubSeq(s, half + 1, Len(s)), c, r)

Rat(n, d) == [num |-> n, den |-> d]
RatLT(x, y) == x.num * y.den < y.num * x.den
RatGE(x, y) == ~RatLT(x, y)
RatGT(x, y) == RatLT(y, x)

(***************************************************************************)
(* script.js: calculateScore                                               *)
(***************************************************************************)
questionsCount == 12
Questions == 1..questionsCount

\* the value attributes of the radio buttons of one question; "" = none checked
OptionValues == {<<"1">>, <<"2">>, <<"3">>, <<"4">>}
NoSelection == <<>>

DigitValue(c) ==
    CASE c = "0" -> 0 [] c = "1" -> 1 [] c = "2" -> 2 [] c = "3" -> 3 [] c = "4" -> 4
      [] c = "5" -> 5 [] c = "6" -> 6 [] c = "7" -> 7 [] c = "8" -> 8 [] c = "9" -> 9
Digits == {"0", "1", "2", "3", "4", "5", "6", "7", "8", "9"}

\* parseInt on a string that starts with a digit: the leading digits, base 10
RECURSIVE ParseDigits(_, _)
ParseDigits(s, acc) ==
    IF s # <<>> /\ Head(s) \in Digits
    THEN ParseDigits(Tail(s), acc * 10 + DigitValue(Head(s)))
    ELSE acc
parseInt(s) == ParseDigits(s, 0)

\* lines 69-76: the loop over q1..q12; a question counts when its value is truthy
Answered(f) == {i \in Questions : f[i] # NoSelection}
RECURSIVE SumAnswers(_, _)
SumAnswers(f, i) ==
    IF i > questionsCount THEN 0
    ELSE (IF f[i] # NoSelection THEN parseInt(f[i]) ELSE 0) + SumAnswers(f, i + 1)
totalScore(f) == SumAnswers(f, 1)
answeredQuestions(f) == Cardinality(Answered(f))

\* line 78: the early return
IncompleteMutant(f) == answeredQuestions(f) = 0
Incomplete(f) == answeredQuestions(f) < questionsCount

averageScore(f) == Rat(totalScore(f), questionsCount)

\* lines 89-109: the band of an average
mentalHealthStateMutant(avg) ==
    IF RatGT(avg, Rat(7, 2)) THEN "Healthy"
    ELSE IF RatGE(avg, Rat(3, 1)) THEN "Mild Concerns"
    ELSE IF RatGE(avg, Rat(5, 2)) THEN "Moderate Concerns"
    ELSE "Severe Concerns"
mentalHealthState(avg) ==
    IF RatGE(avg, Rat(7, 2)) THEN "Healthy"
    ELSE IF RatGE(avg, Rat(3, 1)) THEN "Mild Concerns"
    ELSE IF RatGE(avg, Rat(5, 2)) THEN "Moderate Concerns"
    ELSE "Severe Concerns"

backgroundColor(state) ==
    CASE state = "Healthy" -> "#d4edda"
      [] state = "Mild Concerns" -> "#fff3cd"
      [] state = "Moderate Concerns" -> "#f8d7da"
      [] state = "Severe Concerns" -> "#dc3545"
color(state) ==
    CASE state = "Healthy" -> "#155724"
      [] state = "Mild Concerns" -> "#856404"
      [] state = "Moderate Concerns" -> "#721c24"
      [] state = "Severe Concerns" -> "white"

EmptyResults == [kind |-> "empty", state |-> "", backgroundColor |-> "", color |-> ""]
WarningResults ==
    [kind |-> "warning", state |-> "", backgroundColor |-> "#ffc107", color |-> "#333"]
ResultFor(state) ==
    [kind |-> "result", state |-> state,
     backgroundColor |-> backgroundColor(state), color |-> color(state)]

\* the forms the runs start from: three blocks of questions, each block with one
\* selection (or none); every total from 12 to 48 and every count of missing
\* answers occurs
BlockForms ==
    { [i \in Questions |-> IF i <= k1 THEN a ELSE IF i <= k2 THEN b ELSE c] :
        k1 \in 0..questionsCount, k2 \in 0..questionsCount,
        a \in OptionValues \cup {NoSelection},
        b \in OptionValues \cup {NoSelection},
        c \in OptionValues \cup {NoSelection} }

\* lines 78-83
calculateScoreWarning ==
    /\ Incomplete(form)
    /\ results' = WarningResults
    /\ UNCHANGED <<form, fetches>>

\* lines 85-124
calculateScoreResult ==
    /\ ~Incomplete(form)
    /\ Len(fetches) < MaxPosts
    /\ results' = ResultFor(mentalHealthState(averageScore(form)))
    /\ fetches' = Append(fetches,
            [url |-> "/api/score", method |-> "POST", score |-> averageScore(form)])
    /\ UNCHANGED form

calculateScore ==
    /\ \/ calculateScoreWarning
       \/ calculateScoreResult
    /\ UNCHANGED serverVars

\* a click on a radio button of a question that has no selection yet
SelectOption ==
    /\ questionsCount - answeredQuestions(form) <= MaxFill
    /\ \E i \in Questions, v \in OptionValues :
          /\ form[i] = NoSelection
          /\ form' = [form EXCEPT ![i] = v]
    /\ UNCHANGED <<results, fetches>>
    /\ UNCHANGED serverVars

(***************************************************************************)
(* JSON values of a request body (express.json()).                         *)
(***************************************************************************)
JUndefined == [t |-> "undefined"]
JNull == [t |-> "null"]
JStr(s) == [t |-> "string", s |-> s]
JNum(q) == [t |-> "number", n |-> q]
JArr(a) == [t |-> "array", a |-> a]

\* typeof v === 'string'
IsString(v) == v.t = "string"
\* the value as a condition: !!v
Truthy(v) ==
    CASE v.t = "string" -> v.s # <<>>
      [] v.t = "number" -> v.n.num # 0
      [] v.t = "array" -> TRUE
      [] OTHER -> FALSE
\* ${v} in a template literal
RECURSIVE Join(_, _)
Join(parts, sep) ==
    IF parts = <<>> THEN <<>>
    ELSE IF Len(parts) = 1 THEN parts[1]
    ELSE parts[1] \o sep \o Join(Tail(parts), sep)

(***************************************************************************)
(* server.js: validation and sanitization                                  *)
(***************************************************************************)
\* lines 68-71: /^[^\s@]+@[^\s@]+\.[^\s@]+$/
\* a local part, one "@", then a domain with a "." that has text on both sides;
\* no whitespace and no second "@" anywhere
isValidEmail(email) ==
    /\ \A i \in 1..Len(email) : email[i] \notin Whitespace \cup {"\n", "\r"}
    /\ \E at \in 2..Len(email) :
          /\ email[at] = "@"
          /\ \A i \in 1..Len(email) : email[i] = "@" => i = at
          /\ \E dot \in (at + 2)..(Len(email) - 1) : email[dot] = "."

\* lines 76-88
validateStringFieldMutant(value, fieldName, minLength, maxLength) ==
    IF ~IsString(value)
    THEN [valid |-> FALSE, error |-> <<fieldName, " must be a string.">>]
    ELSE IF Len(value.s) < minLength
    THEN [valid |-> FALSE,
          error |-> <<fieldName, " is required (minimum ", ToString(minLength),
                      " character).">>]
    ELSE IF Len(value.s) > maxLength
    THEN [valid |-> FALSE,
          error |-> <<fieldName, " exceeds maximum length of ", ToString(maxLength),
                      " characters.">>]
    ELSE [valid |-> TRUE, value |-> Trim(value.s)]
validateStringField(value, fieldName, minLength, maxLength) ==
    IF ~IsString(value)
    THEN [valid |-> FALSE, error |-> <<fieldName, " must be a string.">>]
    ELSE IF Len(Trim(value.s)) < minLength
    THEN [valid |-> FALSE,
          error |-> <<fieldName, " is required (minimum ", ToString(minLength),
                      " character).">>]
    ELSE IF Len(Trim(value.s)) > maxLength
    THEN [valid |-> FALSE,
          error |-> <<fieldName, " exceeds maximum length of ", ToString(maxLength),
                      " characters.">>]
    ELSE [valid |-> TRUE, value |-> Trim(value.s)]

\* lines 93-100: five replacements, "&" first
sanitizeHtml(str) ==
    ReplaceAll(
      ReplaceAll(
        ReplaceAll(
          ReplaceAll(
            ReplaceAll(str, "&", <<"&", "a", "m", "p", ";">>),
            "<", <<"&", "l", "t", ";">>),
          ">", <<"&", "g", "t", ";">>),
        "\"", <<"&", "q", "u", "o", "t", ";">>),
      "'", <<"&", "#", "x", "2", "7", ";">>)

\* the errors of a validation, in the order the code pushes them
Errs(conds) == SelectSeq(conds, LAMBDA e : e # <<>>)
ErrOf(v) == IF v.valid THEN <<>> ELSE v.error

\* lines 113-119 and 156-162: the e-mail field of a registration or a contact
EmailError(email) ==
    IF ~Truthy(email) \/ ~IsString(email) THEN <<"Email is required.">>
    ELSE IF ~isValidEmail(Trim(email.s)) THEN <<"Email format is invalid.">>
    ELSE IF Len(Trim(email.s)) > 255
    THEN <<"Email exceeds maximum length of 255 characters.">>
    ELSE <<>>

\* a validation ends in one of three ways: it returns {valid: true, data}, it
\* returns {valid: false, errors}, or it throws a TypeError
Valid(data) == [kind |-> "valid", data |-> data]
Invalid(errors) == [kind |-> "invalid", errors |-> errors]
Throws(what) == [kind |-> "throws", error |-> what]

\* lines 105-143
validateRegistration(data) ==
    LET nameValidation == validateStringField(data.name, "Name", 1, 100)
        contactValidation == validateStringField(data.contact, "Contact", 1, 20)
        addressError ==
            IF Truthy(data.address) /\ IsString(data.address)
               /\ Len(Trim(data.address.s)) > 500
            THEN <<"Address exceeds maximum length of 500 characters.">>
            ELSE <<>>
        errors == Errs(<<ErrOf(nameValidation), EmailError(data.email),
                         ErrOf(contactValidation), addressError>>)
    IN  IF errors # <<>> THEN Invalid(errors)
        ELSE IF Truthy(data.address) /\ ~IsString(data.address)
        THEN Throws("TypeError: data.address.trim is not a function")
        ELSE Valid([name |-> nameValidation.value,
                    email |-> Trim(data.email.s),
                    address |-> IF Truthy(data.address) THEN Trim(data.address.s)
                                ELSE <<>>,
                    contact |-> contactValidation.value])

\* lines 148-180
validateContact(data) ==
    LET nameValidation == validateStringField(data.name, "Name", 1, 100)
        messageValidation == validateStringField(data.message, "Message", 10, 5000)
        errors == Errs(<<ErrOf(nameValidation), EmailError(data.email),
                         ErrOf(messageValidation)>>)
    IN  IF errors # <<>> THEN Invalid(errors)
        ELSE Valid([name |-> nameValidation.value,
                    email |-> Trim(data.email.s),
                    message |-> messageValidation.value])

\* lines 185-212
validateScore(data) ==
    LET scoreError ==
            IF data.score.t \in {"undefined", "null"} THEN <<"Score is required.">>
            ELSE IF data.score.t # "number" THEN <<"Score must be a number.">>
            ELSE IF RatLT(data.score.n, Rat(0, 1)) \/ RatGT(data.score.n, Rat(4, 1))
            THEN <<"Score must be between 0 and 4.">>
            ELSE <<>>
        detailsError ==
            IF Truthy(data.details) /\ IsString(data.details)
               /\ Len(Trim(data.details.s)) > 1000
            THEN <<"Details exceed maximum length of 1000 characters.">>
            ELSE <<>>
        errors == Errs(<<scoreError, detailsError>>)
    IN  IF errors # <<>> THEN Invalid(errors)
        ELSE IF Truthy(data.details) /\ ~IsString(data.details)
        THEN Throws("TypeError: data.details.trim is not a function")
        ELSE Valid([score |-> data.score.n,
                    details |-> IF Truthy(data.details)
                                THEN [t |-> "text", s |-> Trim(data.details.s)]
                                ELSE [t |-> "null"]])

\* lines 221-235: the recipient; the loop over an array calls email.trim() on
\* every element and throws at the first element that is not a string
RecipientErrors(to) ==
    IF ~Truthy(to) THEN <<<<"Recipient email is required.">>>>
    ELSE IF to.t = "array"
    THEN [i \in 1..Len(to.a) |->
             IF ~isValidEmail(Trim(to.a[i].s))
             THEN <<"Invalid email format: ", to.a[i].s>> ELSE <<>>]
    ELSE IF IsString(to)
    THEN <<IF ~isValidEmail(Trim(to.s))
           THEN <<"Recipient email format is invalid.">> ELSE <<>>>>
    ELSE <<<<"Recipient must be a string or array of strings.">>>>

\* lines 217-257
validateMail(data) ==
    IF data.to.t = "array" /\ \E i \in 1..Len(data.to.a) : ~IsString(data.to.a[i])
    THEN Throws("TypeError: email.trim is not a function")
    ELSE
    LET subjectValidation == validateStringField(data.subject, "Subject", 1, 255)
        bodyValidation == validateStringField(data.body, "Message body", 1, 10000)
        errors == Errs(RecipientErrors(data.to)
                       \o <<ErrOf(subjectValidation), ErrOf(bodyValidation)>>)
    IN  IF errors # <<>> THEN Invalid(errors)
        ELSE Valid([to |-> IF data.to.t = "array"
                           THEN [i \in 1..Len(data.to.a) |-> Trim(data.to.a[i].s)]
                           ELSE <<Trim(data.to.s)>>,
                    subject |-> subjectValidation.value,
                    body |-> bodyValidation.value])


(***************************************************************************)
(* server.js: the tables and the request handlers                          *)
(***************************************************************************)
SqlNull == [t |-> "null"]
SqlText(s) == [t |-> "text", s |-> s]
\* new Date().toISOString() at clock value ms
IsoString(ms) == [t |-> "text", iso |-> ms]

\* a handler reads the clock when it runs; the clock may have advanced since the
\* last read
ClockReads == {t \in now..MaxClock : t <= now + 1}

\* res.status(s).json(j), res.send(text)
JsonResponse(status, json) ==
    [status |-> status, headers |-> {}, body |-> [kind |-> "json", json |-> json]]
TextResponse(status, headers, text) ==
    [status |-> status, headers |-> headers, body |-> [kind |-> "text", text |-> text]]
HtmlResponse(dump) ==
    [status |-> 200, headers |-> {<<"Content-Type", "text/html; charset=utf-8">>},
     body |-> [kind |-> "html", dump |-> dump]]

NoUpdate == [state |-> "none"]

\* the record of a request the server has received
\*   pc: "insert" (INSERT handed to the database, handler awaiting it),
\*       "send" (transporter.sendMail awaiting), "query" (admin page awaiting a
\*       SELECT), "done" (handler returned), "threw" (handler rejected)
\*   insert: how the handler's INSERT went ("none", "pending", "ok", "failed")
\*   transport: how its sendMail call went ("none", "pending", "resolved",
\*       "rejected"); sendMailCalls counts the calls
\*   update: the UPDATE the handler handed to the database without awaiting it
\*   res: the responses sent, log: what console.error received
Handler(ep, body) ==
    [ep |-> ep, body |-> body, pc |-> "done", entry |-> [none |-> TRUE],
     data |-> [none |-> TRUE], insert |-> "none", mailId |-> 0,
     transport |-> "none", sendMailCalls |-> 0,
     update |-> NoUpdate, queries |-> 0, dump |-> <<>>, res |-> <<>>, log |-> <<>>]

\* an async route handler whose validation throws returns a rejected promise.
\* Express 4 ignores it (no response is ever sent; Node reports an unhandled
\* rejection); Express 5 passes it to the default error handler, which answers
\* 500. The repository does not pin the version, so both outcomes are possible.
ThrowOutcomes(h, validation) ==
    { [h EXCEPT !.pc = "threw", !.log = <<validation.error>>],
      [h EXCEPT !.pc = "threw", !.log = <<validation.error>>,
                !.res = <<TextResponse(500, {}, "Internal Server Error")>>] }

\* lines 311-313, 334-336, 356-358, 378-380
BadRequest(h, validation) ==
    [h EXCEPT !.pc = "done",
              !.res = <<JsonResponse(400, [success |-> FALSE, errors |-> validation.errors])>>]

\* lines 315-322
RegistrationEntry(d, t) ==
    [name |-> sanitizeHtml(d.name), email |-> d.email,
     address |-> sanitizeHtml(d.address), contact |-> d.contact,
     receivedAt |-> IsoString(t)]
\* lines 338-344
ContactEntry(d, t) ==
    [name |-> sanitizeHtml(d.name), email |-> d.email,
     message |-> sanitizeHtml(d.message), receivedAt |-> IsoString(t)]
\* lines 360-365
ScoreEntry(d, t) ==
    [score |-> d.score, details |-> d.details, receivedAt |-> IsoString(t)]
\* lines 382-391
MailRecord(d) ==
    [recipients |-> Join(d.to, <<",">>), subject |-> sanitizeHtml(d.subject),
     body |-> sanitizeHtml(d.body), status |-> "pending",
     sentAt |-> SqlNull, error |-> SqlNull]

\* the part of a POST handler up to its first await: validate, build the entry,
\* hand the INSERT to the database
EntryFor(ep, d, t) ==
    CASE ep = "register" -> RegistrationEntry(d, t)
      [] ep = "contact" -> ContactEntry(d, t)
      [] ep = "score" -> ScoreEntry(d, t)
      [] ep = "send-mail" -> MailRecord(d)
Receive(ep, body, validation) ==
    /\ Len(handlers) < MaxReqs
    /\ LET h == Handler(ep, body)
       IN  \/ /\ validation.kind = "invalid"
              /\ handlers' = Append(handlers, BadRequest(h, validation))
              /\ UNCHANGED now
           \/ /\ validation.kind = "throws"
              /\ \E o \in ThrowOutcomes(h, validation) : handlers' = Append(handlers, o)
              /\ UNCHANGED now
           \/ /\ validation.kind = "valid"
              /\ \E t \in ClockReads :
                    /\ now' = t
                    /\ handlers' = Append(handlers,
                          [h EXCEPT !.pc = "insert", !.insert = "pending",
                                    !.data = validation.data,
                                    !.entry = EntryFor(ep, validation.data, t)])
    /\ UNCHANGED <<env, registrations, contacts, scores, mails>>
    /\ UNCHANGED clientVars

\* lines 309-322
PostRegister(body) ==
    Receive("register", body, validateRegistration(body))
\* lines 332-344
PostContact(body) ==
    Receive("contact", body, validateContact(body))
\* lines 354-365
PostScore(body) ==
    Receive("score", body, validateScore(body))
\* lines 376-391 (the mail record takes no timestamp)
PostSendMail(body) ==
    Receive("send-mail", body, validateMail(body))

\* lines 259-297: INSERT appends one row; AUTOINCREMENT gives it the next id, and
\* with no DELETE in the program the id is the row's position
InsertRowMutant(tbl, entry) ==
    IF tbl = <<>> THEN <<[f \in DOMAIN entry \cup {"id"} |->
                            IF f = "id" THEN 1 ELSE entry[f]]>>
    ELSE [tbl EXCEPT ![Len(tbl)] =
            [f \in DOMAIN entry \cup {"id"} |-> IF f = "id" THEN Len(tbl) ELSE entry[f]]]
InsertRow(tbl, entry) ==
    Append(tbl, [f \in DOMAIN entry \cup {"id"} |->
                    IF f = "id" THEN Len(tbl) + 1 ELSE entry[f]])

\* db.run can fail (disk full, database locked, file not writable)
DbErrors == {"SQLITE_FULL: database or disk is full"}

SavedMessage(ep) ==
    CASE ep = "register" -> "Registration successful."
      [] ep = "contact" -> "Contact form submitted successfully."
      [] ep = "score" -> "Score recorded successfully."
\* lines 328, 350, 371, 423
NotSavedMessage(ep) ==
    CASE ep = "register" -> "Could not save registration."
      [] ep = "contact" -> "Could not save contact."
      [] ep = "score" -> "Could not save score."
      [] ep = "send-mail" -> "Could not record mail."

\* the catch blocks at lines 326-329, 348-351, 369-372, 421-424
InsertFailedMutant(h, err) ==
    [h EXCEPT !.pc = "done", !.insert = "failed", !.log = <<err>>,
              !.res = <<JsonResponse(500, [success |-> FALSE, message |-> err])>>]
InsertFailed(h, err) ==
    [h EXCEPT !.pc = "done", !.insert = "failed", !.log = <<err>>,
              !.res = <<JsonResponse(500,
                          [success |-> FALSE, message |-> NotSavedMessage(h.ep)])>>]

\* lines 324-325, 346-347, 367-368
Saved(h, id) ==
    [h EXCEPT !.pc = "done", !.insert = "ok",
              !.res = <<JsonResponse(200,
                          [success |-> TRUE, id |-> id, message |-> SavedMessage(h.ep)])>>]

\* the database runs the INSERT of handler i and the handler resumes
InsertDoneSimple(i, tbl) ==
    /\ \/ /\ tbl' = InsertRow(tbl, handlers[i].entry)
          /\ handlers' = [handlers EXCEPT ![i] = Saved(@, Len(tbl) + 1)]
       \/ /\ \E err \in DbErrors :
                handlers' = [handlers EXCEPT ![i] = InsertFailed(@, err)]
          /\ UNCHANGED tbl
    /\ UNCHANGED <<env, now>>
    /\ UNCHANGED clientVars

RegisterInsertDone(i) ==
    /\ handlers[i].ep = "register" /\ handlers[i].pc = "insert"
    /\ InsertDoneSimple(i, registrations)
    /\ UNCHANGED <<contacts, scores, mails>>
ContactInsertDone(i) ==
    /\ handlers[i].ep = "contact" /\ handlers[i].pc = "insert"
    /\ InsertDoneSimple(i, contacts)
    /\ UNCHANGED <<registrations, scores, mails>>
ScoreInsertDone(i) ==
    /\ handlers[i].ep = "score" /\ handlers[i].pc = "insert"
    /\ InsertDoneSimple(i, scores)
    /\ UNCHANGED <<registrations, contacts, mails>>

\* lines 418-420: no SMTP_HOST
MockedMutant(h, id) ==
    [h EXCEPT !.pc = "done", !.insert = "ok", !.mailId = id,
              !.update = [state |-> "queued", id |-> id, set |-> [status |-> "sent"]],
              !.res = <<JsonResponse(200,
                          [success |-> TRUE, id |-> id, sent |-> FALSE,
                           message |-> "No SMTP configured; mail recorded."])>>]
Mocked(h, id) ==
    [h EXCEPT !.pc = "done", !.insert = "ok", !.mailId = id,
              !.update = [state |-> "queued", id |-> id, set |-> [status |-> "mocked"]],
              !.res = <<JsonResponse(200,
                          [success |-> TRUE, id |-> id, sent |-> FALSE,
                           message |-> "No SMTP configured; mail recorded."])>>]

\* lines 398-407: SMTP_HOST set, transporter.sendMail called and awaited
SendingMutant(h, id) ==
    [h EXCEPT !.pc = "send", !.insert = "ok", !.mailId = id,
              !.transport = "pending", !.sendMailCalls = @ + 1,
              !.res = <<JsonResponse(200,
                          [success |-> TRUE, id |-> id, sent |-> TRUE,
                           message |-> "Email sent successfully."])>>]
Sending(h, id) ==
    [h EXCEPT !.pc = "send", !.insert = "ok", !.mailId = id,
              !.transport = "pending", !.sendMailCalls = @ + 1]

\* lines 393-398, 418-424: the database runs the INSERT of the mail record and
\* the handler resumes
MailInsertDone(i) ==
    /\ handlers[i].ep = "send-mail" /\ handlers[i].pc = "insert"
    /\ \/ /\ mails' = InsertRow(mails, handlers[i].entry)
          /\ handlers' = [handlers EXCEPT ![i] =
                IF env.SMTP_HOST # <<>> THEN Sending(@, Len(mails) + 1)
                ELSE Mocked(@, Len(mails) + 1)]
       \/ /\ \E err \in DbErrors :
                handlers' = [handlers EXCEPT ![i] = InsertFailed(@, err)]
          /\ UNCHANGED mails
    /\ UNCHANGED <<env, now, registrations, contacts, scores>>
    /\ UNCHANGED clientVars

\* what the transport rejects with: an Error with or without a message
SendErrors == {[name |-> "Error", message |-> "connect ECONNREFUSED"],
               [name |-> "Error", message |-> ""]}
\* line 413: String(sendErr.message || sendErr)
ErrorTextMutant(e) == e.message
ErrorText(e) == IF e.message # "" THEN e.message ELSE e.name

\* lines 408-410
Sent(h, t) ==
    [h EXCEPT !.pc = "done", !.transport = "resolved",
              !.update = [state |-> "queued", id |-> h.mailId,
                          set |-> [status |-> "sent", sentAt |-> IsoString(t)]],
              !.res = <<JsonResponse(200,
                          [success |-> TRUE, id |-> h.mailId, sent |-> TRUE,
                           message |-> "Email sent successfully."])>>]
\* lines 411-415
SendFailed(h, sendErr) ==
    [h EXCEPT !.pc = "done", !.transport = "rejected", !.log = <<sendErr>>,
              !.update = [state |-> "queued", id |-> h.mailId,
                          set |-> [status |-> "failed",
                                   error |-> SqlText(ErrorText(sendErr))]],
              !.res = <<JsonResponse(500,
                          [success |-> FALSE, id |-> h.mailId, sent |-> FALSE,
                           message |-> "Mail send failed, logged."])>>]

\* the transport call of handler i resolves or rejects and the handler resumes
SendMailDone(i) ==
    /\ handlers[i].pc = "send"
    /\ \/ \E t \in ClockReads :
             /\ now' = t
             /\ handlers' = [handlers EXCEPT ![i] = Sent(@, t)]
       \/ /\ \E sendErr \in SendErrors :
                handlers' = [handlers EXCEPT ![i] = SendFailed(@, sendErr)]
          /\ UNCHANGED now
    /\ UNCHANGED <<env, registrations, contacts, scores, mails>>
    /\ UNCHANGED clientVars

\* UPDATE mails SET ... WHERE id = ?
UpdateMailMutant(tbl, set, id) ==
    [r \in DOMAIN tbl |->
        [f \in DOMAIN tbl[r] |-> IF f \in DOMAIN set THEN set[f] ELSE tbl[r][f]]]
UpdateMail(tbl, set, id) ==
    [r \in DOMAIN tbl |->
        IF tbl[r].id = id
        THEN [f \in DOMAIN tbl[r] |-> IF f \in DOMAIN set THEN set[f] ELSE tbl[r][f]]
        ELSE tbl[r]]

\* lines 409, 413, 419: db.run(UPDATE ...) with no callback and no await. The
\* database runs the statement at some later time; if it fails nothing in the
\* handler learns of it and the row stays as it was.
RunUpdate(i) ==
    /\ handlers[i].update.state = "queued"
    /\ \/ /\ mails' = UpdateMail(mails, handlers[i].update.set, handlers[i].update.id)
          /\ handlers' = [handlers EXCEPT ![i].update.state = "applied"]
       \/ /\ handlers' = [handlers EXCEPT ![i].update.state = "failed"]
          /\ UNCHANGED mails
    /\ UNCHANGED <<env, now, registrations, contacts, scores>>
    /\ UNCHANGED clientVars


(***************************************************************************)
(* server.js: the admin page behind HTTP Basic authentication              *)
(***************************************************************************)
\* the printable ASCII characters, code 32 first (BACKSLASH and BACKTICK stand
\* for the characters with codes 92 and 96)
Ascii ==
    <<" ", "!", "\"", "#", "$", "%", "&", "'", "(", ")", "*", "+", ",", "-", ".", "/",
      "0", "1", "2", "3", "4", "5", "6", "7", "8", "9", ":", ";", "<", "=", ">", "?",
      "@", "A", "B", "C", "D", "E", "F", "G", "H", "I", "J", "K", "L", "M", "N", "O",
      "P", "Q", "R", "S", "T", "U", "V", "W", "X", "Y", "Z", "[", "BACKSLASH", "]", "^", "_",
      "BACKTICK", "a", "b", "c", "d", "e", "f", "g", "h", "i", "j", "k", "l", "m", "n", "o",
      "p", "q", "r", "s", "t", "u", "v", "w", "x", "y", "z", "{", "|", "}", "~">>
CharCode(c) == 31 + CHOOSE i \in 1..Len(Ascii) : Ascii[i] = c
\* a byte outside the printable range decodes to the replacement character
CharOf(b) == IF b - 31 \in 1..Len(Ascii) THEN Ascii[b - 31] ELSE "?"

Base64Alphabet ==
    <<"A", "B", "C", "D", "E", "F", "G", "H", "I", "J", "K", "L", "M", "N", "O", "P",
      "Q", "R", "S", "T", "U", "V", "W", "X", "Y", "Z", "a", "b", "c", "d", "e", "f",
      "g", "h", "i", "j", "k", "l", "m", "n", "o", "p", "q", "r", "s", "t", "u", "v",
      "w", "x", "y", "z", "0", "1", "2", "3", "4", "5", "6", "7", "8", "9", "+", "/">>
Sextet(c) == (CHOOSE i \in 1..64 : Base64Alphabet[i] = c) - 1
IsBase64Char(c) == \E i \in 1..64 : Base64Alphabet[i] = c

\* btoa(text), as the browser builds the Authorization header
RECURSIVE Base64Encode(_)
Base64Encode(text) ==
    IF text = <<>> THEN <<>>
    ELSE IF Len(text) = 1 THEN
        LET n == CharCode(text[1]) * 16
        IN  <<Base64Alphabet[(n \div 64) + 1], Base64Alphabet[(n % 64) + 1], "=", "=">>
    ELSE IF Len(text) = 2 THEN
        LET n == (CharCode(text[1]) * 256 + CharCode(text[2])) * 4
        IN  <<Base64Alphabet[(n \div 4096) + 1], Base64Alphabet[((n \div 64) % 64) + 1],
              Base64Alphabet[(n % 64) + 1], "=">>
    ELSE
        LET n == CharCode(text[1]) * 65536 + CharCode(text[2]) * 256 + CharCode(text[3])
        IN  <<Base64Alphabet[(n \div 262144) + 1], Base64Alphabet[((n \div 4096) % 64) + 1],
              Base64Alphabet[((n \div 64) % 64) + 1], Base64Alphabet[(n % 64) + 1]>>
            \o Base64Encode(SubSeq(text, 4, Len(text)))

\* Buffer.from(payload, 'base64').toString(): characters outside the alphabet
\* (the padding included) are skipped, every four sextets give three bytes, a
\* final group of two or three sextets gives one or two
RECURSIVE DecodeSextets(_)
DecodeSextets(x) ==
    IF Len(x) < 2 THEN <<>>
    ELSE IF Len(x) = 2 THEN <<CharOf((x[1] * 64 + x[2]) \div 16)>>
    ELSE IF Len(x) = 3 THEN
        LET n == x[1] * 4096 + x[2] * 64 + x[3]
        IN  <<CharOf(n \div 1024), CharOf((n \div 4) % 256)>>
    ELSE
        LET n == x[1] * 262144 + x[2] * 4096 + x[3] * 64 + x[4]
        IN  <<CharOf(n \div 65536), CharOf((n \div 256) % 256), CharOf(n % 256)>>
            \o DecodeSextets(SubSeq(x, 5, Len(x)))
Base64Decode(payload) ==
    LET kept == SelectSeq(payload, IsBase64Char)
    IN  DecodeSextets([i \in 1..Len(kept) |-> Sextet(kept[i])])

\* String.prototype.split(sep) for a one-character separator
RECURSIVE Split(_, _)
Split(str, sep) ==
    IF \A i \in 1..Len(str) : str[i] # sep THEN <<str>>
    ELSE LET at == CHOOSE i \in 1..Len(str) :
                      str[i] = sep /\ \A j \in 1..(i - 1) : str[j] # sep
         IN  <<SubSeq(str, 1, at - 1)>> \o Split(SubSeq(str, at + 1, Len(str)), sep)

StartsWith(str, prefix) ==
    Len(str) >= Len(prefix) /\ SubSeq(str, 1, Len(prefix)) = prefix

BasicPrefix == <<"B", "a", "s", "i", "c", " ">>
NoCreds == [user |-> <<"?">>, pass |-> <<>>, none |-> TRUE]

\* lines 434-439; h is the Authorization header, <<>> when the request has none
parseBasicAuth(h) ==
    IF h = <<>> \/ ~StartsWith(h, BasicPrefix) THEN NoCreds
    ELSE LET parts == Split(Base64Decode(Split(h, " ")[2]), ":")
         IN  [user |-> parts[1], pass |-> Join(Tail(parts), <<":">>), none |-> FALSE]

\* lines 442-443: process.env.ADMIN_USER || 'admin'
adminUser == IF env.ADMIN_USER # <<>> THEN env.ADMIN_USER ELSE <<"a", "d", "m", "i", "n">>
adminPass ==
    IF env.ADMIN_PASS # <<>> THEN env.ADMIN_PASS
    ELSE <<"a", "d", "m", "i", "n", "1", "2", "3">>

Challenge == {<<"WWW-Authenticate", "Basic realm=\"Admin Area\"">>}

\* lines 441-454: next() when the request may proceed, else the 401 it gets
CallNext == [next |-> TRUE]
Refuse(text) == [next |-> FALSE, res |-> TextResponse(401, Challenge, text)]
requireAdminMutant(h) ==
    LET creds == parseBasicAuth(h)
    IN  IF creds.none THEN Refuse("Authentication required")
        ELSE IF creds.user = adminUser THEN CallNext
        ELSE Refuse("Invalid credentials")
requireAdmin(h) ==
    LET creds == parseBasicAuth(h)
    IN  IF creds.none THEN Refuse("Authentication required")
        ELSE IF creds.user = adminUser /\ creds.pass = adminPass THEN CallNext
        ELSE Refuse("Invalid credentials")

AdminLimit == 50
Min(a, b) == IF a < b THEN a ELSE b

\* SELECT ... ORDER BY <key> DESC LIMIT n: the row positions a query may return,
\* in the order returned; rows with equal keys come in either order
ByReceivedAt == "receivedAt"
ById == "id"
Key(row, order) == IF order = ById THEN row.id ELSE row.receivedAt.iso
\* the orders in which the first a rows may come: a row follows the rows with
\* a greater key (above of them) and shares its places with the rows of equal
\* key (ties of them, itself included), which come in either order
RECURSIVE TopRows(_, _)
TopRows(ranked, a) ==
    IF a = 0 THEN {<<>>}
    ELSE UNION {{Append(q, r) :
                   r \in {x.row : x \in {y \in ranked :
                                            y.above < a /\ a <= y.above + y.ties}}
                         \ {q[j] : j \in DOMAIN q}} :
                q \in TopRows(ranked, a - 1)}
QueryRecentMutant(tbl, order, n) == {[a \in 1..Min(Len(tbl), n) |-> a]}
QueryRecent(tbl, order, n) ==
    LET ranked ==
          {[row |-> r,
            above |-> Cardinality({x \in DOMAIN tbl :
                                     Key(tbl[x], order) > Key(tbl[r], order)}),
            ties |-> Cardinality({x \in DOMAIN tbl :
                                    Key(tbl[x], order) = Key(tbl[r], order)})] :
             r \in DOMAIN tbl}
    IN  TopRows(ranked, Min(Len(tbl), n))

\* the columns each query selects (lines 463-466)
Columns(row, cols) == [f \in cols |-> row[f]]
Selected(tbl, q, cols) == [a \in DOMAIN q |-> Columns(tbl[q[a]], cols)]

\* lines 461 and 441-454: GET /admin arrives and passes through requireAdmin
AdminGet(h) ==
    /\ Len(handlers) < MaxReqs
    /\ LET verdict == requireAdmin(h)
           hd == Handler("admin", h)
       IN  handlers' = Append(handlers,
              IF verdict.next THEN [hd EXCEPT !.pc = "query"]
              ELSE [hd EXCEPT !.pc = "done", !.res = <<verdict.res>>])
    /\ UNCHANGED <<env, now, registrations, contacts, scores, mails>>
    /\ UNCHANGED clientVars

\* lines 462-466 and 499-504: the next of the four SELECTs runs and the handler
\* resumes; after the fourth it sends the page; a failing SELECT ends in the catch
AdminQuery(i) ==
    /\ handlers[i].pc = "query"
    /\ \/ \E q \in CASE handlers[i].queries = 0 ->
                        { Selected(registrations, x,
                                   {"id", "name", "email", "contact", "receivedAt"}) :
                            x \in QueryRecent(registrations, ByReceivedAt, AdminLimit) }
                     [] handlers[i].queries = 1 ->
                        { Selected(contacts, x,
                                   {"id", "name", "email", "message", "receivedAt"}) :
                            x \in QueryRecent(contacts, ByReceivedAt, AdminLimit) }
                     [] handlers[i].queries = 2 ->
                        { Selected(scores, x, {"id", "score", "details", "receivedAt"}) :
                            x \in QueryRecent(scores, ByReceivedAt, AdminLimit) }
                     [] handlers[i].queries = 3 ->
                        { Selected(mails, x,
                                   {"id", "recipients", "subject", "status", "sentAt"}) :
                            x \in QueryRecent(mails, ById, AdminLimit) } :
             handlers' = [handlers EXCEPT
                ![i].queries = @ + 1,
                ![i].dump = Append(@, q),
                ![i].pc = IF handlers[i].queries = 3 THEN "done" ELSE "query",
                ![i].res = IF handlers[i].queries = 3
                           THEN <<HtmlResponse(Append(handlers[i].dump, q))>> ELSE @]
       \/ \E err \in DbErrors :
             handlers' = [handlers EXCEPT
                ![i].queries = @ + 1,
                ![i].pc = "done",
                ![i].log = <<err>>,
                ![i].res = <<TextResponse(500, {}, "Could not load admin page")>>]
    /\ UNCHANGED <<env, now, registrations, contacts, scores, mails>>
    /\ UNCHANGED clientVars


ServerIdle ==
    /\ env = [SMTP_HOST |-> <<>>, ADMIN_USER |-> <<>>, ADMIN_PASS |-> <<>>]
    /\ now = 0
    /\ registrations = <<>>
    /\ contacts = <<>>
    /\ scores = <<>>
    /\ mails = <<>>
    /\ handlers = <<>>

ClientIdle ==
    /\ form = [i \in Questions |-> NoSelection]
    /\ results = EmptyResults
    /\ fetches = <<>>

(***************************************************************************)
(* The requests of the runs.                                               *)
(***************************************************************************)
\* a JSON object; a key the object lacks reads as undefined
EmptyBody ==
    [name |-> JUndefined, email |-> JUndefined, address |-> JUndefined,
     contact |-> JUndefined, message |-> JUndefined, score |-> JUndefined,
     details |-> JUndefined, to |-> JUndefined, subject |-> JUndefined,
     body |-> JUndefined]

\* a text of n visible characters between lead and trail whitespace characters
Padded(lead, n, trail, c) == Rep(" ", lead) \o Rep(c, n) \o Rep("\t", trail)

AnEmail == <<"a", "@", "b", ".", "c", "o">>
OtherEmail == <<"x", "@", "y", ".", "o", "r", "g">>
AName == <<"A", "l">>
APhone == <<"5", "5", "5">>
ASubject == <<"H", "i", " ", "<", "a", "l", "l", ">">>
ABody == <<"S", "e", "e", " ", "y", "o", "u", " ", "&", " ", "y", "o", "u", "r", "s">>
AMessage == <<"I", " ", "n", "e", "e", "d", " ", "h", "e", "l", "p">>
SmtpHost == <<"s", "m", "t", "p", ".", "e", "x", "a", "m", "p", "l", "e", ".", "c", "o", "m">>

ValidRegistration ==
    [EmptyBody EXCEPT !.name = JStr(AName), !.email = JStr(AnEmail),
                      !.contact = JStr(APhone)]
ValidContact ==
    [EmptyBody EXCEPT !.name = JStr(AName), !.email = JStr(AnEmail),
                      !.message = JStr(AMessage)]
ValidScore == [EmptyBody EXCEPT !.score = JNum(Rat(42, 12))]
ValidMail ==
    [EmptyBody EXCEPT !.to = JStr(AnEmail), !.subject = JStr(ASubject),
                      !.body = JStr(ABody)]

\* the headers a browser sends for a user and a password
BasicHeader(user, pass) == BasicPrefix \o Base64Encode(user \o <<":">> \o pass)
DefaultUser == <<"a", "d", "m", "i", "n">>
DefaultPass == <<"a", "d", "m", "i", "n", "1", "2", "3">>

\* the requests of the interleaved runs
RegisterBodies == {ValidRegistration}
ContactBodies == {ValidContact}
ScoreBodies == {ValidScore}
MailBodies ==
    { [ValidMail EXCEPT !.to = JArr(<<JStr(AnEmail), JStr(OtherEmail)>>)],
      [ValidMail EXCEPT !.to = JUndefined] }
AdminHeaders == {<<>>, BasicHeader(DefaultUser, DefaultPass)}

Init ==
    /\ ClientIdle
    /\ env \in {[SMTP_HOST |-> h, ADMIN_USER |-> <<>>, ADMIN_PASS |-> <<>>] :
                  h \in {<<>>, SmtpHost}}
    /\ now = 0
    /\ registrations = <<>>
    /\ contacts = <<>>
    /\ scores = <<>>
    /\ mails = <<>>
    /\ handlers = <<>>

Next ==
    \/ \E body \in RegisterBodies : PostRegister(body)
    \/ \E body \in ContactBodies : PostContact(body)
    \/ \E body \in ScoreBodies : PostScore(body)
    \/ \E body \in MailBodies : PostSendMail(body)
    \/ \E h \in AdminHeaders : AdminGet(h)
    \/ \E i \in DOMAIN handlers : RegisterInsertDone(i)
    \/ \E i \in DOMAIN handlers : ContactInsertDone(i)
    \/ \E i \in DOMAIN handlers : ScoreInsertDone(i)
    \/ \E i \in DOMAIN handlers : MailInsertDone(i)
    \/ \E i \in DOMAIN handlers : SendMailDone(i)
    \/ \E i \in DOMAIN handlers : RunUpdate(i)
    \/ \E i \in DOMAIN handlers : AdminQuery(i)

Spec == Init /\ [][Next]_vars


InitScore ==
    /\ form \in BlockForms
    /\ results = EmptyResults
    /\ fetches = <<>>
    /\ ServerIdle

NextScore == calculateScore \/ SelectOption

SpecScore == InitScore /\ [][NextScore]_vars

(***************************************************************************)
(* The admin page of a server whose tables already hold rows.              *)
(***************************************************************************)
\* when the stored rows were received, counted back from the start of the run:
\* one millisecond apart, the two oldest within the same millisecond
PastStamp(k, n) == IF k = 1 THEN 1 - n ELSE k - n - 1

\* the tables after n accepted requests to each endpoint, inserted in the
\* order received, the mails recorded with no SMTP configured
\* the k-th row of a table: the entry with the id the INSERT gave it
Stored(entry, k) == [f \in DOMAIN entry \cup {"id"} |-> IF f = "id" THEN k ELSE entry[f]]
PastRegistrations(n) ==
    [k \in 1..n |->
        Stored(RegistrationEntry(validateRegistration(ValidRegistration).data,
                                 PastStamp(k, n)), k)]
PastContacts(n) ==
    [k \in 1..n |->
        Stored(ContactEntry(validateContact(ValidContact).data, PastStamp(k, n)), k)]
PastScores(n) ==
    [k \in 1..n |->
        Stored(ScoreEntry(validateScore(ValidScore).data, PastStamp(k, n)), k)]
PastMails(n) ==
    [k \in 1..n |->
        [Stored(MailRecord(validateMail(ValidMail).data), k) EXCEPT !.status = "mocked"]]

NoAdminYet == \A i \in DOMAIN handlers : handlers[i].ep # "admin"

InitRecent ==
    /\ ClientIdle
    /\ env = [SMTP_HOST |-> <<>>, ADMIN_USER |-> <<>>, ADMIN_PASS |-> <<>>]
    /\ now = 0
    /\ handlers = <<>>
    /\ \E n \in {AdminLimit - 1, AdminLimit} :
          /\ registrations = PastRegistrations(n)
          /\ contacts = PastContacts(1)
          /\ scores = PastScores(1)
          /\ mails = PastMails(n + 1)

NextRecent ==
    \/ \E body \in RegisterBodies : PostRegister(body)
    \/ NoAdminYet /\ AdminGet(BasicHeader(DefaultUser, DefaultPass))
    \/ \E i \in DOMAIN handlers : RegisterInsertDone(i)
    \/ \E i \in DOMAIN handlers : AdminQuery(i)

SpecRecent == InitRecent /\ [][NextRecent]_vars

(***************************************************************************)
(* One request per run, over a wide set of bodies.                         *)
(***************************************************************************)
Five == JNum(Rat(5, 1))
Zero == JNum(Rat(0, 1))

WideNames ==
    {JUndefined, JNull, Five, JStr(<<>>), JStr(<<" ", "\t">>)}
    \cup {JStr(Padded(l, n, t, "a")) : l \in 0..MaxPad, t \in 0..MaxPad, n \in {1, 100, 101}}
WideEmails ==
    {JUndefined, JNull, Five, JStr(<<>>), JStr(AnEmail),
     JStr(<<" ">> \o AnEmail \o <<" ">>),
     JStr(<<"a", "b", ".", "c", "o">>), JStr(<<"a", "@", "b">>), JStr(<<"a", "@", "@", "b", ".", "c", "o">>), JStr(<<"a", " ", "b", "@", "c", ".", "d", "e">>), JStr(<<"a", "@", ".", "c", "o">>),
     JStr(<<"a", "@", "b", ".">>), JStr(<<"a", "@", "b", ".", "c", ".", "d", "e">>),
     JStr(<<"a", "@", "b", ".">> \o Rep("c", 251)),
     JStr(<<"a", "@", "b", ".">> \o Rep("c", 252))}
WidePhones ==
    {JUndefined, Five, JStr(APhone), JStr(Rep("5", 20)), JStr(Rep("5", 21))}
WideAddresses ==
    {JUndefined, JNull, JStr(<<>>), JStr(<<"1", " ", "M", "a", "i", "n", " ", "S", "t">>), Five, Zero, JArr(<<>>),
     JStr(Rep("a", 500)), JStr(Rep("a", 501))}
WideMessages ==
    {JUndefined, Five, JStr(<<"I", " ", "a", "m", " ", "<", "o", "k", ">">>), JStr(<<"a", "a", "a", "a", " ", "a", "a", "a", "a">>), JStr(<<"a", "a", "a", "a", " ", "a", "a", "a", "a", "a">>)}
    \cup {JStr(Padded(l, n, t, c)) :
            l \in 0..MaxPad, t \in 0..MaxPad, n \in 8..11, c \in {"a", "&"}}
\* messages at the upper bound, plain and made of characters that are escaped
LongMessages ==
    {JStr(Rep(c, n)) : n \in {4999, 5000, 5001}, c \in {"a", "<", "'"}}
    \cup {JStr(Rep("a", 4990) \o Rep("&", 10))}
WideScores ==
    {JUndefined, JNull, JStr(<<"3">>), JNum(Rat(-1, 12)), Zero, JNum(Rat(42, 12)),
     JNum(Rat(4, 1)), JNum(Rat(49, 12))}
WideDetails ==
    {JUndefined, JNull, JStr(<<>>), JStr(<<"a", "f", "t", "e", "r", " ", "a", " ", "l", "o", "n", "g", " ", "w", "e", "e", "k">>), Five, Zero, JArr(<<>>),
     JStr(Rep("a", 1000)), JStr(Rep("a", 1001))}
WideRecipients ==
    {JUndefined, JNull, JStr(<<>>), JStr(AnEmail), JStr(<<" ">> \o AnEmail),
     JStr(<<"n", "o", "b", "o", "d", "y">>), Five, Zero, JArr(<<>>),
     JArr(<<JStr(AnEmail), JStr(OtherEmail)>>),
     JArr(<<JStr(AnEmail), JStr(<<"n", "o", "b", "o", "d", "y">>)>>),
     JArr(<<Five>>), JArr(<<JStr(AnEmail), Five>>), JArr(<<JStr(<<"n", "o", "b", "o", "d", "y">>), JNull>>)}
WideSubjects ==
    {JUndefined, Five, JStr(<<>>), JStr(ASubject), JStr(Rep("s", 255)),
     JStr(Rep("s", 256))}
WideTexts == {JUndefined, Five, JStr(<<" ">>), JStr(ABody)}

WideRegistrations ==
    {[ValidRegistration EXCEPT !.name = n, !.email = e] :
        n \in WideNames, e \in WideEmails}
    \cup {[ValidRegistration EXCEPT !.contact = c, !.address = a] :
            c \in WidePhones, a \in WideAddresses}
    \cup {[ValidRegistration EXCEPT !.name = n, !.address = a] :
            n \in {JUndefined, JStr(<<>>)}, a \in WideAddresses}
WideContacts ==
    {[ValidContact EXCEPT !.name = n, !.email = e] : n \in WideNames, e \in WideEmails}
    \cup {[ValidContact EXCEPT !.message = m] : m \in WideMessages \cup LongMessages}
WideScoreBodies ==
    {[EmptyBody EXCEPT !.score = x, !.details = d] : x \in WideScores, d \in WideDetails}
WideMails ==
    {[EmptyBody EXCEPT !.to = r, !.subject = x, !.body = b] :
        r \in WideRecipients, x \in WideSubjects, b \in WideTexts}

NextValidate ==
    \/ \E body \in WideRegistrations : handlers = <<>> /\ PostRegister(body)
    \/ \E body \in WideContacts : handlers = <<>> /\ PostContact(body)
    \/ \E body \in WideScoreBodies : handlers = <<>> /\ PostScore(body)
    \/ \E body \in WideMails : handlers = <<>> /\ PostSendMail(body)
    \/ \E i \in DOMAIN handlers : RegisterInsertDone(i)
    \/ \E i \in DOMAIN handlers : ContactInsertDone(i)
    \/ \E i \in DOMAIN handlers : ScoreInsertDone(i)
    \/ \E i \in DOMAIN handlers : MailInsertDone(i)
    \/ \E i \in DOMAIN handlers : SendMailDone(i)
    \/ \E i \in DOMAIN handlers : RunUpdate(i)

SpecValidate == Init /\ [][NextValidate]_vars

(***************************************************************************)
(* The admin page under every configuration of the credentials.            *)
(***************************************************************************)
Users == {DefaultUser, <<"r", "o", "o", "t">>, <<"A", "d", "m", "i", "n">>, <<>>}
Passes == {DefaultPass, <<"s", ":", "3">>, <<"a", "d", "m", "i", "n", "1", "2">>, <<"s">>, <<>>}
WideHeaders ==
    {BasicHeader(u, p) : u \in Users, p \in Passes}
    \cup {<<>>,
          BasicPrefix,
          BasicPrefix \o Base64Encode(DefaultUser),
          BasicPrefix \o <<" ">> \o Base64Encode(DefaultUser \o <<":">> \o DefaultPass),
          SubSeq(BasicPrefix, 1, 5) \o Base64Encode(DefaultUser \o <<":">> \o DefaultPass),
          <<"b">> \o Tail(BasicHeader(DefaultUser, DefaultPass)),
          <<"B", "e", "a", "r", "e", "r", " ">> \o Base64Encode(DefaultUser \o <<":">> \o DefaultPass),
          BasicHeader(DefaultUser, DefaultPass) \o <<" ", "x">>}

InitAdmin ==
    /\ ClientIdle
    /\ env \in {[SMTP_HOST |-> <<>>, ADMIN_USER |-> u, ADMIN_PASS |-> p] :
                  u \in {<<>>, <<"r", "o", "o", "t">>}, p \in {<<>>, <<"s", ":", "3">>}}
    /\ now = 0
    /\ registrations = <<>>
    /\ contacts = <<>>
    /\ scores = <<>>
    /\ mails = <<>>
    /\ handlers = <<>>


NextAdmin ==
    \/ \E h \in WideHeaders : NoAdminYet /\ AdminGet(h)
    \/ \E body \in ScoreBodies : PostScore(body)
    \/ \E i \in DOMAIN handlers : ScoreInsertDone(i)
    \/ \E i \in DOMAIN handlers : AdminQuery(i)

SpecAdmin == InitAdmin /\ [][NextAdmin]_vars

(***************************************************************************)
(* Properties.                                                             *)
(***************************************************************************)
Categories == {"Healthy", "Mild Concerns", "Moderate Concerns", "Severe Concerns"}

\* the integer an answer stands for, and the total T of a form
AnswerOf(v) == CHOOSE n \in 1..4 : <<ToString(n)>> = v
RECURSIVE TotalFrom(_, _)
TotalFrom(f, i) == IF i > 12 THEN 0 ELSE AnswerOf(f[i]) + TotalFrom(f, i + 1)
FormComplete == \A i \in 1..12 : form[i] # <<>>

\* C1: whenever a result is displayed, all 12 answers are integers in 1..4 and,
\* with T their sum, the category is Healthy iff T >= 42, Mild Concerns iff
\* 36 <= T < 42, Moderate Concerns iff 30 <= T < 36, Severe Concerns iff T < 30.
C1_Categories ==
    results.kind = "result" =>
        /\ FormComplete
        /\ results.state \in Categories
        /\ LET T == TotalFrom(form, 1)
           IN  /\ results.state = "Healthy" <=> T >= 42
               /\ results.state = "Mild Concerns" <=> (36 <= T /\ T < 42)
               /\ results.state = "Moderate Concerns" <=> (30 <= T /\ T < 36)
               /\ results.state = "Severe Concerns" <=> T < 30
C1_Witness ==
    /\ results.kind = "result" /\ results.state = "Healthy"
    /\ FormComplete /\ TotalFrom(form, 1) = 42

\* C2: a run of calculateScore on a form with a question unanswered shows the
\* warning, shows no category and issues no request.
C2_WarningOnly ==
    [][ ((\E i \in 1..12 : form[i] = <<>>) /\ (results' # results \/ fetches' # fetches))
          => /\ results'.kind = "warning"
             /\ results'.state \notin Categories
             /\ results'.backgroundColor = "#ffc107"
             /\ fetches' = fetches ]_vars
C2_Witness ==
    /\ results.kind = "warning"
    /\ Cardinality({i \in 1..12 : form[i] = <<>>}) = 1
    /\ fetches = <<>>

MailHandlers == {i \in DOMAIN handlers : handlers[i].ep = "send-mail"}
PostHandlers == {i \in DOMAIN handlers : handlers[i].ep # "admin"}
Answer(h) == h.res[1]
Finals == {"sent", "failed", "mocked"}

C4_StatusOnce ==
    [][ /\ \A r \in DOMAIN mails' :
              r \notin DOMAIN mails => mails'[r].status = "pending"
        /\ \A r \in DOMAIN mails :
              /\ r \in DOMAIN mails'
              /\ mails'[r].status # mails[r].status =>
                    /\ mails[r].status = "pending"
                    /\ mails'[r].status \in Finals ]_vars
C4_Witness ==
    /\ Len(mails) = 2
    /\ mails[1].status \in Finals
    /\ mails[2].status \in Finals
    /\ \A i \in MailHandlers : handlers[i].update.state = "applied"

Present(v) == v.t \notin {"undefined", "null"}
BadText(v, lo, hi) == ~IsString(v) \/ Len(Trim(v.s)) < lo \/ Len(Trim(v.s)) > hi
BadOptionalText(v, hi) == Present(v) /\ (~IsString(v) \/ Len(Trim(v.s)) > hi)
BadEmail(v) == ~IsString(v) \/ ~isValidEmail(Trim(v.s)) \/ Len(Trim(v.s)) > 255
BadRecipient(v) ==
    CASE v.t = "string" -> ~isValidEmail(Trim(v.s))
      [] v.t = "array" ->
            \E k \in 1..Len(v.a) : ~IsString(v.a[k]) \/ ~isValidEmail(Trim(v.a[k].s))
      [] OTHER -> TRUE
FailsValidation(ep, b) ==
    CASE ep = "register" ->
            \/ BadText(b.name, 1, 100) \/ BadEmail(b.email)
            \/ BadText(b.contact, 1, 20) \/ BadOptionalText(b.address, 500)
      [] ep = "contact" ->
            BadText(b.name, 1, 100) \/ BadEmail(b.email) \/ BadText(b.message, 10, 5000)
      [] ep = "score" ->
            \/ b.score.t # "number"
            \/ RatLT(b.score.n, Rat(0, 1)) \/ RatGT(b.score.n, Rat(4, 1))
            \/ BadOptionalText(b.details, 1000)
      [] ep = "send-mail" ->
            BadRecipient(b.to) \/ BadText(b.subject, 1, 255) \/ BadText(b.body, 1, 10000)
NoRows == registrations = <<>> /\ contacts = <<>> /\ scores = <<>> /\ mails = <<>>
Rejected(h) ==
    /\ Len(h.res) = 1
    /\ Answer(h).status = 400
    /\ Answer(h).body.kind = "json"
    /\ Answer(h).body.json.success = FALSE
    /\ Answer(h).body.json.errors # <<>>

\* C6: every POST request whose body fails validation (a required field missing,
\* of the wrong type or out of bounds, a non-string optional field, a non-string
\* recipient) is answered 400 with success false and a non-empty error list,
\* and inserts no row; an empty or blank name gives an error that begins
\* "Name is required".
C6_Rejected ==
    \A i \in PostHandlers :
        LET h == handlers[i]
        IN  FailsValidation(h.ep, h.body) =>
              /\ Rejected(h)
              /\ NoRows
              /\ (h.ep = "register" /\ IsString(h.body.name) /\ Trim(h.body.name.s) = <<>>) =>
                    /\ Answer(h).body.json.errors[1][1] = "Name"
                    /\ Answer(h).body.json.errors[1][2] = " is required (minimum "

ValidNameAndEmail(b) == ~BadText(b.name, 1, 100) /\ ~BadEmail(b.email)
ContactHandlers == {i \in DOMAIN handlers : handlers[i].ep = "contact"}

\* C7 as stated: with a valid name and email, every message of 9 characters is
\* rejected with 400 and every message of 10 characters is accepted (a row is
\* inserted and the response is success true).
C7_NineTen ==
    \A i \in ContactHandlers :
        LET h == handlers[i]
            m == h.body.message
        IN  (ValidNameAndEmail(h.body) /\ IsString(m)) =>
              /\ Len(m.s) = 9 => Rejected(h)
              /\ (Len(m.s) = 10 /\ h.pc = "done") =>
                    /\ Answer(h).status = 200
                    /\ Answer(h).body.json.success = TRUE
                    /\ Len(contacts) = 1

\* C7 amended: the length that counts is the length after trimming. A message
\* of trimmed length 9 is rejected with 400 and inserts nothing; a message of
\* trimmed length 10 passes validation, and its handler ends either with the row
\* inserted and 200, success true, or, when the INSERT fails, with 500.
C7_TrimmedNineTen ==
    \A i \in ContactHandlers :
        LET h == handlers[i]
            m == h.body.message
        IN  (ValidNameAndEmail(h.body) /\ IsString(m)) =>
              /\ Len(Trim(m.s)) = 9 => Rejected(h) /\ h.insert = "none" /\ NoRows
              /\ Len(Trim(m.s)) = 10 =>
                    /\ h.insert # "none"
                    /\ h.insert = "pending" => h.res = <<>> /\ NoRows
                    /\ h.insert = "ok" =>
                          /\ Answer(h).status = 200
                          /\ Answer(h).body.json.success = TRUE
                          /\ Answer(h).body.json.id = 1
                          /\ Len(contacts) = 1
                          /\ contacts[1].message = sanitizeHtml(Trim(m.s))
                    /\ h.insert = "failed" => Answer(h).status = 500 /\ NoRows
C7_Witness ==
    \E i \in ContactHandlers :
        /\ ValidNameAndEmail(handlers[i].body)
        /\ IsString(handlers[i].body.message)
        /\ Len(Trim(handlers[i].body.message.s)) = 10
        /\ Len(handlers[i].body.message.s) > 10
        /\ handlers[i].insert = "ok"
        /\ Len(contacts) = 1
        /\ Answer(handlers[i]).status = 200

AdminHandlers == {i \in DOMAIN handlers : handlers[i].ep = "admin"}
Challenged(h) ==
    /\ Len(h.res) = 1
    /\ Answer(h).status = 401
    /\ \E x \in Answer(h).headers : x[1] = "WWW-Authenticate"
    /\ h.queries = 0 /\ h.dump = <<>> /\ h.pc = "done"
ConfiguredUser ==
    IF env.ADMIN_USER = <<>> THEN <<"a", "d", "m", "i", "n">> ELSE env.ADMIN_USER
ConfiguredPass ==
    IF env.ADMIN_PASS = <<>> THEN <<"a", "d", "m", "i", "n", "1", "2", "3">>
    ELSE env.ADMIN_PASS

\* C8: GET /admin without a Basic Authorization header gets 401 with
\* WWW-Authenticate and runs no query; a query runs (and the page is sent) only
\* for a request whose decoded user and password equal the configured ones
\* (admin / admin123 when unset); every other request gets that 401.
C8_AdminGate ==
    \A i \in AdminHandlers :
        LET h == handlers[i]
            creds == parseBasicAuth(h.body)
            match == /\ ~creds.none
                     /\ creds.user = ConfiguredUser
                     /\ creds.pass = ConfiguredPass
        IN  /\ (h.body = <<>> \/ ~StartsWith(h.body, BasicPrefix)) => Challenged(h)
            /\ ~match => Challenged(h)
            /\ (h.queries > 0 \/ h.pc = "query" \/ Answer(h).status # 401) => match
            /\ \A u \in Users, p \in Passes :
                  h.body = BasicHeader(u, p) =>
                      (Challenged(h) <=> ~(u = ConfiguredUser /\ p = ConfiguredPass))
C8_Witness ==
    \E i \in AdminHandlers :
        /\ handlers[i].body = <<>>
        /\ Challenged(handlers[i])
        /\ Len(scores) >= 1

GenericMessages ==
    {"Could not save registration.", "Could not save contact.",
     "Could not save score.", "Could not record mail."}

\* C9: a POST request that passed validation and whose INSERT failed is
\* answered 500 with success false and one of the four fixed messages, with no
\* id and nothing of the database error; a send-mail request in that case never
\* reaches the transport.
C9_InsertFailure ==
    \A i \in PostHandlers :
        LET h == handlers[i]
        IN  h.insert = "failed" =>
              /\ Len(h.res) = 1
              /\ Answer(h).status = 500
              /\ Answer(h).body.kind = "json"
              /\ DOMAIN Answer(h).body.json = {"success", "message"}
              /\ Answer(h).body.json.success = FALSE
              /\ Answer(h).body.json.message \in GenericMessages
              /\ Answer(h).body.json.message \notin DbErrors
              /\ h.log # <<>>
              /\ h.sendMailCalls = 0 /\ h.transport = "none" /\ h.update.state = "none"
C9_Witness ==
    /\ \E i \in MailHandlers : handlers[i].insert = "failed"
    /\ \E i \in PostHandlers \ MailHandlers : handlers[i].insert = "failed"

SameRows(old, new) ==
    /\ Len(new) >= Len(old)
    /\ \A r \in DOMAIN old : new[r] = old[r]

\* C10: no step removes or changes a row of registrations, contacts or scores,
\* none removes a mail row, and in a mail row only status, sentAt and error
\* change; no table shrinks.
C10_Frame ==
    [][ /\ SameRows(registrations, registrations')
        /\ SameRows(contacts, contacts')
        /\ SameRows(scores, scores')
        /\ Len(mails') >= Len(mails)
        /\ \A r \in DOMAIN mails :
              \A f \in {"id", "recipients", "subject", "body"} :
                  mails'[r][f] = mails[r][f] ]_vars
C10_Witness ==
    /\ Len(mails) >= 1 /\ mails[1].status \in Finals
    /\ \E i \in DOMAIN handlers :
          handlers[i].ep = "admin" /\ handlers[i].queries = 4


\* C11: every row of the contacts table has a message of 10 to 5000
\* characters (the stored message is the trimmed message after sanitizeHtml).
C11_StoredLength ==
    \A r \in DOMAIN contacts :
        /\ Len(contacts[r].message) >= 10
        /\ Len(contacts[r].message) <= 5000

\* the send-mail requests that passed validation while SMTP_HOST is set
SmtpHandlers ==
    {i \in MailHandlers : handlers[i].insert # "none" /\ env.SMTP_HOST # <<>>}

\* C12 as stated: for every valid send-mail request handled while SMTP_HOST is
\* set, no response exists before its transport call has resolved or failed,
\* and once the handler has returned the transport was invoked exactly once.
C12_BlocksOnTransport ==
    \A i \in SmtpHandlers :
        LET h == handlers[i]
        IN  /\ h.res # <<>> => h.transport \in {"resolved", "rejected"}
            /\ h.sendMailCalls <= 1
            /\ h.pc = "done" => h.sendMailCalls = 1

\* C12, amended: for every valid send-mail request handled while SMTP_HOST is
\* set and whose record was inserted, the transport is invoked exactly once,
\* when the insert completes, and no response exists before that call has
\* resolved or failed; a request whose insert failed is answered without any
\* transport call. Holds under any interleaving of the handlers.
C12_BlocksOnceInserted ==
    \A i \in SmtpHandlers :
        LET h == handlers[i]
        IN  /\ h.insert = "pending" =>
                  h.sendMailCalls = 0 /\ h.transport = "none" /\ h.res = <<>>
            /\ h.insert = "failed" =>
                  h.sendMailCalls = 0 /\ h.transport = "none" /\ Len(h.res) = 1
            /\ h.insert = "ok" =>
                  /\ h.sendMailCalls = 1
                  /\ h.transport # "none"
                  /\ h.transport = "pending" <=> h.res = <<>>
                  /\ h.transport \in {"resolved", "rejected"} <=> Len(h.res) = 1
                  /\ Len(h.res) <= 1
C12_Witness ==
    \E i, j \in SmtpHandlers :
        /\ handlers[i].transport = "pending" /\ handlers[i].res = <<>>
        /\ handlers[j].transport \in {"resolved", "rejected"}
        /\ Len(handlers[j].res) = 1
        /\ handlers[i].sendMailCalls = 1 /\ handlers[j].sendMailCalls = 1

\* the table the k-th query of the admin page reads, and the column it sorts by
QueriedTable(k) ==
    CASE k = 1 -> registrations [] k = 2 -> contacts [] k = 3 -> scores [] k = 4 -> mails
QueriedOrder(k) == IF k = 4 THEN ById ELSE ByReceivedAt
ListedIds(q) == {q[a].id : a \in DOMAIN q}
\* the listing a query of handler i has just returned, if this step is one
Listed(i) == handlers'[i].dump[Len(handlers'[i].dump)]
Queried(i) ==
    /\ i \in DOMAIN handlers /\ handlers[i].ep = "admin"
    /\ Len(handlers'[i].dump) = Len(handlers[i].dump) + 1

\* C13 as stated: each listing of the admin page has at most 50 rows, and
\* every row of the table that is not listed was inserted before every row
\* that is listed.
C13_LastInserted ==
    [][ \A i \in DOMAIN handlers' :
            Queried(i) =>
                LET q == Listed(i)
                    tbl == QueriedTable(Len(handlers'[i].dump))
                IN  /\ Len(q) <= 50
                    /\ \A r \in DOMAIN tbl :
                          tbl[r].id \notin ListedIds(q) =>
                             \A a \in DOMAIN q : tbl[r].id < q[a].id ]_vars

\* C13, amended: each listing has min(50, rows of the table) distinct rows of
\* the table as it is when the query runs, in descending order of the sort
\* column (receivedAt for registrations, contacts and scores, id for mails),
\* and no row left out has a greater sort value than a listed row; for mails
\* the rows left out are exactly those inserted before every listed row.
C13_MostRecent ==
    [][ \A i \in DOMAIN handlers' :
            Queried(i) =>
                LET k == Len(handlers'[i].dump)
                    q == Listed(i)
                    tbl == QueriedTable(k)
                    order == QueriedOrder(k)
                    RowOf(a) == tbl[q[a].id]
                IN  /\ Len(q) = Min(Len(tbl), 50)
                    /\ \A a \in DOMAIN q :
                          /\ q[a].id \in DOMAIN tbl
                          /\ \A f \in DOMAIN q[a] : q[a][f] = RowOf(a)[f]
                    /\ \A a, b \in DOMAIN q :
                          a < b => /\ q[a].id # q[b].id
                                   /\ Key(RowOf(a), order) >= Key(RowOf(b), order)
                    /\ \A r \in DOMAIN tbl :
                          tbl[r].id \notin ListedIds(q) =>
                             \A a \in DOMAIN q :
                                /\ Key(tbl[r], order) <= Key(RowOf(a), order)
                                /\ k = 4 => tbl[r].id < q[a].id ]_vars
C13_Witness ==
    \E i \in AdminHandlers :
        /\ handlers[i].queries = 4 /\ Len(handlers[i].dump) = 4
        /\ Len(registrations) = 51
        /\ Len(handlers[i].dump[1]) = 50
        /\ 51 \in ListedIds(handlers[i].dump[1])
        /\ Len(mails) = 51
        /\ Len(handlers[i].dump[4]) = 50
        /\ 1 \notin ListedIds(handlers[i].dump[4])

\* C14: every POST handler that has ended has sent exactly one response, with
\* status 200, 400 or 500, and no handler has ever sent more than one; ending
\* by an exception thrown during validation is no exception to this.
C14_OneResponse ==
    \A i \in PostHandlers :
        LET h == handlers[i]
        IN  /\ Len(h.res) <= 1
            /\ h.pc \in {"done", "threw"} =>
                  /\ Len(h.res) = 1
                  /\ Answer(h).status \in {200, 400, 500}
                  /\ h.pc # "threw"

\* the status a send-mail response reports for the record it names
Reported(h) ==
    IF Answer(h).body.json.sent THEN "sent"
    ELSE IF Answer(h).status = 500 THEN "failed" ELSE "mocked"

\* C15: once a send-mail response carrying a mail id has been sent, the
\* record with that id is no longer "pending": its stored status is the
\* outcome the response reports, and no status update has failed.
C15_SettledAtResponse ==
    \A i \in MailHandlers :
        LET h == handlers[i]
        IN  (h.res # <<>> /\ h.insert = "ok") =>
               /\ mails[h.mailId].status # "pending"
               /\ mails[h.mailId].status = Reported(h)
               /\ h.update.state # "failed"

====
